---- MODULE Spec2Model ----
(***************************************************************************)
(* Model of def/validate.go of sqlbunny: the validation and resolution     *)
(* pass Schema() that turns the declared types and models into a schema,   *)
(* or into an aggregate error listing the recorded diagnostics.            *)
(*                                                                         *)
(* Names are sequences of one-character strings, so that undot (which      *)
(* replaces every "." by "__") and makeName (which joins with "___") are    *)
(* computed on the characters, as strings.Replace and fmt.Sprintf do.      *)
(* A diagnostic is the tuple of its format string's tag and its arguments. *)
(* A Go pointer that may be nil (Model.PrimaryKey) is a sequence of length *)
(* 0 (nil) or 1.                                                           *)
(***************************************************************************)
EXTENDS Integers, Sequences, FiniteSets, TLC

\* ------------------------------------------------------------------ bounds
\* number of items appended to the first model's base item list
MaxExtra == 2
\* depth of nested makeModel calls the goroutine stack can hold
MaxStack == 4
\* number of Schema() calls in one process
MaxRuns == 2
\* number of members of the struct type of the flattening inputs
MaxMembers == 2

\* ---------------------------------------------------------------- strings
\* undot replacing a dot by a single underscore
RECURSIVE undotSingle(_)
undotSingle(s) ==
    IF s = <<>> THEN <<>>
    ELSE (IF Head(s) = "." THEN <<"_">> ELSE <<Head(s)>>) \o undotSingle(Tail(s))

\* strings.Replace(s, ".", "__", -1)
RECURSIVE undot(_)
undot(s) ==
    IF s = <<>> THEN <<>>
    ELSE (IF Head(s) = "." THEN <<"_", "_">> ELSE <<Head(s)>>) \o undot(Tail(s))

undotAll(s) == [i \in 1..Len(s) |-> undot(s[i])]

prefixAll(s, prefix) == [i \in 1..Len(s) |-> prefix \o s[i]]

\* strings.Join(columns, sep)
RECURSIVE Join(_, _)
Join(columns, sep) ==
    IF columns = <<>> THEN <<>>
    ELSE IF Len(columns) = 1 THEN columns[1]
    ELSE columns[1] \o sep \o Join(Tail(columns), sep)

makeName(model, columns, suffix) ==
    model \o <<"_", "_", "_">> \o Join(columns, <<"_", "_", "_">>)
          \o <<"_", "_", "_">> \o suffix

describeIndex(columns) == Join(columns, <<",", " ">>)

\* ------------------------------------------------------------------ flags
NullFlag == [flag |-> "null", key |-> <<>>, value |-> <<>>]
TagFlag(k, v) == [flag |-> "tag", key |-> k, value |-> v]

isNullable(flags) == \E n \in 1..Len(flags) : flags[n].flag = "null"

\* addError: append to the global list carried in the accumulator
addError(acc, e) == [acc EXCEPT !.errs = Append(@, e)]

\* makeTags: the tag map, and a diagnostic for every repeated key
RECURSIVE makeTagsFrom(_, _, _, _, _)
makeTagsFrom(flags, n, res, errs, context) ==
    IF n > Len(flags) THEN [tags |-> res, errs |-> errs]
    ELSE IF flags[n].flag = "tag"
         THEN makeTagsFrom(flags, n + 1,
                  [k \in DOMAIN res \cup {flags[n].key} |->
                      IF k = flags[n].key THEN flags[n].value ELSE res[k]],
                  IF flags[n].key \in DOMAIN res
                     THEN Append(errs, <<"duplicate tag", context, flags[n].key>>)
                     ELSE errs,
                  context)
         ELSE makeTagsFrom(flags, n + 1, res, errs, context)

makeTags(flags, errs, context) == makeTagsFrom(flags, 1, << >>, errs, context)

\* ---------------------------------------------------------- declarations
\* ModelItem values of the declaration language (field, primaryKey, index,
\* unique, foreignKey), all with the same record shape
Item(kind, name, typeName, flags, names, columnName, foreignModelName) ==
    [kind |-> kind, name |-> name, typeName |-> typeName, flags |-> flags,
     names |-> names, columnName |-> columnName,
     foreignModelName |-> foreignModelName]
FieldItem(name, typeName, flags) == Item("field", name, typeName, flags, <<>>, <<>>, <<>>)
PrimaryKeyItem(names) == Item("primaryKey", <<>>, "", <<>>, names, <<>>, <<>>)
IndexItem(names) == Item("index", <<>>, "", <<>>, names, <<>>, <<>>)
UniqueItem(names) == Item("unique", <<>>, "", <<>>, names, <<>>, <<>>)
ForeignKeyItem(columnName, foreignModelName) ==
    Item("foreignKey", <<>>, "", <<>>, <<>>, columnName, foreignModelName)

\* typeEntry: a declared type; a base type carries its database type, a
\* struct type its items
BaseTypeDecl(name, db) == [name |-> name, kind |-> "base", db |-> db, items |-> <<>>]
StructTypeDecl(name, items) == [name |-> name, kind |-> "struct", db |-> "", items |-> items]
ModelDecl(name, items) == [name |-> name, items |-> items]

\* t.info.getType(t.name): the schema.Type of a declaration
getType(t) == [kind |-> t.kind, name |-> t.name, db |-> t.db]

\* the type of the presence column of a nullable struct field
BoolType == [kind |-> "base", name |-> "bool", db |-> "boolean"]

\* &schema.Model{Name: m.name}
NewModel(name) ==
    [Name |-> name, Fields |-> <<>>, Columns |-> <<>>, PrimaryKey |-> <<>>,
     Indexes |-> <<>>, Uniques |-> <<>>, ForeignKeys |-> <<>>]

\* --------------------------------------------------------------- makeModel
\* acc = [m: the model being built, errs: validationErrors, overflow: the
\* goroutine stack was exhausted]; S = [Types, typesByName]
RECURSIVE makeModel(_, _, _, _, _, _)
RECURSIVE makeItem(_, _, _, _, _, _)

\* case field of makeModel
makeField(S, acc, i, prefix, forceNullable, depth) ==
    IF i.typeName \notin DOMAIN S.Types
    THEN addError(acc, <<"field references unknown type", acc.m.Name,
                         prefix \o i.name, i.typeName>>)
    ELSE
      LET t == S.Types[i.typeName]
          nullable == isNullable(i.flags)
          tg == makeTags(i.flags, acc.errs, <<acc.m.Name, prefix \o i.name>>)
          acc1 == IF prefix = <<>>
                  THEN [acc EXCEPT
                          !.errs = tg.errs,
                          !.m.Fields = Append(@, [Name |-> i.name, Type |-> t,
                                                  Nullable |-> nullable \/ forceNullable,
                                                  Tags |-> tg.tags])]
                  ELSE acc
      IN IF t.kind = "struct"
         THEN LET acc2 == makeModel(S, acc1, S.typesByName[i.typeName].items,
                                    prefix \o i.name \o <<".">>,
                                    nullable \/ forceNullable, depth + 1)
              IN IF acc2.overflow THEN acc2
                 ELSE IF nullable
                 THEN [acc2 EXCEPT !.m.Columns =
                         Append(@, [Name |-> undot(prefix \o i.name), Type |-> BoolType,
                                    DBType |-> "boolean", Nullable |-> forceNullable])]
                 ELSE acc2
         ELSE [acc1 EXCEPT !.m.Columns =
                 Append(@, [Name |-> undot(prefix \o i.name), Type |-> t,
                            DBType |-> t.db, Nullable |-> nullable \/ forceNullable])]

\* makePrimaryKey keeping the primary key already set
makePrimaryKeyKeepFirst(acc, i, prefix) ==
    IF acc.m.PrimaryKey # <<>>
    THEN addError(acc, <<"multiple primary key definitions", acc.m.Name>>)
    ELSE [acc EXCEPT !.m.PrimaryKey = <<[Columns |-> undotAll(prefixAll(i.names, prefix))]>>]

\* case primaryKey of makeModel
makePrimaryKey(acc, i, prefix) ==
    LET acc1 == IF acc.m.PrimaryKey # <<>>
                THEN addError(acc, <<"multiple primary key definitions", acc.m.Name>>)
                ELSE acc
    IN [acc1 EXCEPT !.m.PrimaryKey = <<[Columns |-> undotAll(prefixAll(i.names, prefix))]>>]

makeItem(S, acc, i, prefix, forceNullable, depth) ==
    CASE i.kind = "field" -> makeField(S, acc, i, prefix, forceNullable, depth)
      [] i.kind = "primaryKey" -> makePrimaryKey(acc, i, prefix)
      [] i.kind = "index" ->
           [acc EXCEPT !.m.Indexes =
              Append(@, [Name |-> <<>>, Columns |-> undotAll(prefixAll(i.names, prefix))])]
      [] i.kind = "unique" ->
           [acc EXCEPT !.m.Uniques =
              Append(@, [Name |-> <<>>, Columns |-> undotAll(prefixAll(i.names, prefix))])]
      [] i.kind = "foreignKey" ->
           [acc EXCEPT !.m.ForeignKeys =
              Append(@, [Name |-> <<>>, Model |-> acc.m.Name,
                         Column |-> undot(prefix \o i.columnName),
                         ForeignModel |-> i.foreignModelName,
                         ForeignColumn |-> <<>>])]

\* the loop over items; a call nested deeper than the stack holds ends the
\* process (Go: "fatal error: stack overflow")
makeModel(S, acc, items, prefix, forceNullable, depth) ==
    IF acc.overflow \/ depth > MaxStack THEN [acc EXCEPT !.overflow = TRUE]
    ELSE IF items = <<>> THEN acc
    ELSE makeModel(S, makeItem(S, acc, Head(items), prefix, forceNullable, depth),
                   Tail(items), prefix, forceNullable, depth)

\* ------------------------------------------------------------------ checks
\* Model.FindColumn(name): the first column of that name, or nil
RECURSIVE FindColumnFrom(_, _, _)
FindColumnFrom(cols, name, n) ==
    IF n > Len(cols) THEN <<>>
    ELSE IF cols[n].Name = name THEN <<cols[n]>>
    ELSE FindColumnFrom(cols, name, n + 1)

FindColumn(m, name) == FindColumnFrom(m.Columns, name, 1)

RECURSIVE Concat(_)
Concat(ss) == IF ss = <<>> THEN <<>> ELSE Head(ss) \o Concat(Tail(ss))

\* one diagnostic per listed column the model does not have, in list order
unknownColumns(m, columns, tag) ==
    Concat([k \in 1..Len(columns) |->
              IF FindColumn(m, columns[k]) = <<>>
              THEN << <<tag, m.Name, describeIndex(columns), columns[k]>> >>
              ELSE <<>>])

\* one diagnostic for every field whose name an earlier field has (seen)
checkDuplicateFields(m) ==
    LET seenBefore(n) == {m.Fields[k].Name : k \in 1..(n - 1)}
    IN Concat([n \in 1..Len(m.Fields) |->
          IF m.Fields[n].Name \in seenBefore(n)
          THEN << <<"field defined multiple times", m.Name, m.Fields[n].Name>> >>
          ELSE <<>>])

checkPrimaryKey(m) ==
    IF m.PrimaryKey = <<>>
    THEN << <<"missing a primary key", m.Name>> >>
    ELSE LET cols == m.PrimaryKey[1].Columns
         IN Concat([k \in 1..Len(cols) |->
               LET c == FindColumn(m, cols[k])
               IN IF c = <<>>
                  THEN << <<"primary key references unknown column", m.Name, cols[k]>> >>
                  ELSE IF c[1].Nullable
                  THEN << <<"primary key references nullable column", m.Name, cols[k]>> >>
                  ELSE <<>>])

\* checkIndexes and checkUniques: the constraints with their names assigned
namedConstraints(m, list, suffix) ==
    [n \in 1..Len(list) |-> [list[n] EXCEPT !.Name = makeName(m.Name, list[n].Columns, suffix)]]

\* ... and their diagnostics: per constraint, the duplicate one, then the
\* unknown columns
constraintErrors(m, named, dupTag, colTag) ==
    LET seenBefore(n) == {named[k].Name : k \in 1..(n - 1)}
    IN Concat([n \in 1..Len(named) |->
          (IF named[n].Name \in seenBefore(n)
           THEN << <<dupTag, m.Name, describeIndex(named[n].Columns)>> >>
           ELSE <<>>)
          \o unknownColumns(m, named[n].Columns, colTag)])

checkIndexes(m) ==
    LET named == namedConstraints(m, m.Indexes, <<"i", "d", "x">>)
    IN [m |-> [m EXCEPT !.Indexes = named],
        errs |-> constraintErrors(m, named, "index defined multiple times",
                                  "index references unknown column")]

checkUniques(m) ==
    LET named == namedConstraints(m, m.Uniques, <<"k", "e", "y">>)
    IN [m |-> [m EXCEPT !.Uniques = named],
        errs |-> constraintErrors(m, named, "unique defined multiple times",
                                  "unique references unknown column")]

\* checkForeignKeys, from foreign key n on: st = [m, errs, panicked], errs
\* the diagnostics this call has recorded
RECURSIVE checkForeignKeysFrom(_, _, _)
checkForeignKeysFrom(Models, st, n) ==
    IF st.panicked \/ n > Len(st.m.ForeignKeys) THEN st
    ELSE
      LET f == st.m.ForeignKeys[n]
          name == makeName(st.m.Name, <<f.Column>>, <<"f", "k", "e", "y">>)
          e1 == IF FindColumn(st.m, f.Column) = <<>>
                THEN << <<"foreign key on non-existing field", st.m.Name, f.Column>> >>
                ELSE <<>>
          st1 == [st EXCEPT !.m.ForeignKeys[n].Name = name, !.errs = @ \o e1]
      IN IF f.ForeignModel \notin DOMAIN Models
         THEN checkForeignKeysFrom(Models,
                  [st1 EXCEPT !.errs = Append(@, <<"foreign key to non-existing model",
                                                   st.m.Name, f.Column, f.ForeignModel>>)],
                  n + 1)
         ELSE LET m2 == Models[f.ForeignModel]
              IN IF m2.PrimaryKey = <<>>
                 \* m2.PrimaryKey.Columns with m2.PrimaryKey == nil
                 THEN [st1 EXCEPT !.panicked = TRUE]
                 ELSE LET pk == m2.PrimaryKey[1].Columns
                          st2 == IF Len(pk) # 1
                                 THEN [st1 EXCEPT !.errs =
                                         Append(@, <<"foreign key to model with multi-column primary key",
                                                     st.m.Name, f.Column, f.ForeignModel>>)]
                                 ELSE st1
                      IN IF Len(pk) = 0
                         \* m2.PrimaryKey.Columns[0] of an empty slice
                         THEN [st2 EXCEPT !.panicked = TRUE]
                         ELSE checkForeignKeysFrom(Models,
                                  [st2 EXCEPT !.m.ForeignKeys[n].ForeignColumn = pk[1]],
                                  n + 1)

checkForeignKeys(Models, m) ==
    checkForeignKeysFrom(Models, [m |-> m, errs |-> <<>>, panicked |-> FALSE], 1)

\* the five checks of one model, in the order of the loop body;
\* acc = [Models, errs, panicked]
checkModel(acc, name) ==
    LET m0 == acc.Models[name]
        ix == checkIndexes(m0)
        uq == checkUniques(ix.m)
        fk == checkForeignKeys(acc.Models, uq.m)
    IN [Models |-> [acc.Models EXCEPT ![name] = fk.m],
        errs |-> acc.errs \o checkDuplicateFields(m0) \o checkPrimaryKey(m0)
                          \o ix.errs \o uq.errs \o fk.errs,
        panicked |-> fk.panicked]

\* for _, m := range s.Models, visiting the keys in the order ord
RECURSIVE checkAll(_, _, _)
checkAll(acc, ord, n) ==
    IF acc.panicked \/ n > Len(ord) THEN acc
    ELSE checkAll(checkModel(acc, ord[n]), ord, n + 1)

\* ------------------------------------------------------------------ Schema
\* "Register all types by name": acc = [Types, typesByName, errs]
RECURSIVE registerTypes(_, _, _)
registerTypes(acc, decls, n) ==
    IF n > Len(decls) THEN acc
    ELSE LET t == decls[n]
             put(f, v) == [k \in DOMAIN f \cup {t.name} |-> IF k = t.name THEN v ELSE f[k]]
         IN registerTypes(
              [Types |-> put(acc.Types, getType(t)),
               typesByName |-> put(acc.typesByName, t),
               errs |-> IF t.name \in DOMAIN acc.Types
                        THEN Append(acc.errs, <<"type defined multiple times", t.name>>)
                        ELSE acc.errs],
              decls, n + 1)

\* t.info.resolveTypes with the callback of Schema: one diagnostic per
\* member of a struct type whose type name is not registered
resolveTypes(Types, t) ==
    IF t.kind # "struct" THEN <<>>
    ELSE Concat([k \in 1..Len(t.items) |->
            IF t.items[k].kind = "field" /\ t.items[k].typeName \notin DOMAIN Types
            THEN << <<"type references unknown type", t.name, t.items[k].name,
                      t.items[k].typeName>> >>
            ELSE <<>>])

resolveAll(Types, decls) == Concat([n \in 1..Len(decls) |-> resolveTypes(Types, decls[n])])

\* "Register all models": acc = [Models, errs, overflow]; the model of a
\* name declared again replaces the earlier one in s.Models
RECURSIVE registerModels(_, _, _, _)
registerModels(S, acc, decls, n) ==
    IF acc.overflow \/ n > Len(decls) THEN acc
    ELSE LET d == decls[n]
             e == IF d.name \in DOMAIN acc.Models
                  THEN Append(acc.errs, <<"model defined multiple times", d.name>>)
                  ELSE acc.errs
             built == makeModel(S, [m |-> NewModel(d.name), errs |-> e, overflow |-> FALSE],
                                d.items, <<>>, FALSE, 1)
         IN registerModels(S,
              [Models |-> [k \in DOMAIN acc.Models \cup {d.name} |->
                              IF k = d.name THEN built.m ELSE acc.Models[k]],
               errs |-> built.errs,
               overflow |-> built.overflow],
              decls, n + 1)

\* the orders in which a range over a map with these keys can visit them
Orders(keys) ==
    {o \in [1..Cardinality(keys) -> keys] : \A a, b \in DOMAIN o : a # b => o[a] # o[b]}

NoResult == [outcome |-> "none", schema |-> << >>, count |-> 0, lines |-> <<>>]

\* One call of Schema() on the declarations tys, mds, with validationErrors
\* holding errs0 at entry and the range over s.Models visiting in the order
\* ord (of the names that are its keys).
\* [typesByName, errs, s: the local s when the call ended, result].
\* s.CalculateRelationships() belongs to the schema package and adds the
\* relationships to a schema that is already valid; it is left out.
SchemaCall(tys, mds, errs0, ord) ==
    LET reg == registerTypes([Types |-> << >>, typesByName |-> << >>, errs |-> errs0], tys, 1)
        res == reg.errs \o resolveAll(reg.Types, tys)
        S == [Types |-> reg.Types, typesByName |-> reg.typesByName]
        mods == registerModels(S, [Models |-> << >>, errs |-> res, overflow |-> FALSE], mds, 1)
        chk == checkAll([Models |-> mods.Models, errs |-> mods.errs, panicked |-> FALSE], ord, 1)
        out(errs, Models, res0) ==
            [typesByName |-> reg.typesByName, errs |-> errs,
             s |-> [Types |-> reg.Types, Models |-> Models], result |-> res0]
    IN IF mods.overflow
       THEN out(mods.errs, mods.Models, [NoResult EXCEPT !.outcome = "stack overflow"])
       ELSE IF chk.panicked
       THEN out(chk.errs, chk.Models, [NoResult EXCEPT !.outcome = "panic"])
       ELSE IF Len(chk.errs) # 0
       THEN out(chk.errs, chk.Models,
                [outcome |-> "error", schema |-> << >>,
                 count |-> Len(chk.errs), lines |-> chk.errs])
       ELSE out(chk.errs, chk.Models,
                [outcome |-> "schema", schema |-> chk.Models,
                 count |-> 0, lines |-> <<>>])

ModelNames(mds) == {mds[n].name : n \in 1..Len(mds)}

\* ------------------------------------------------------------------- state
VARIABLES
    types,             \* the declared types (package variable types)
    models,            \* the declared models (package variable models)
    typesByName,       \* package variable typesByName
    s,                 \* the local s of the last call of Schema(), as the call left it
    validationErrors,  \* package variable validationErrors
    result,            \* what the last call of Schema() returned
    recorded,          \* the diagnostics addError recorded during the last call
    runs               \* number of calls of Schema() so far

vars == <<types, models, typesByName, s, validationErrors, result, recorded, runs>>

\* A call of Schema(). A stack overflow ends the process; a panic can be
\* recovered by the caller, who may call again.
Schema ==
    /\ runs < MaxRuns
    /\ result.outcome # "stack overflow"
    /\ \E ord \in Orders(ModelNames(models)) :
         LET r == SchemaCall(types, models, validationErrors, ord)
         IN /\ typesByName' = r.typesByName
            /\ s' = r.s
            /\ validationErrors' = r.errs
            /\ result' = r.result
            /\ recorded' = SubSeq(r.errs, Len(validationErrors) + 1, Len(r.errs))
    /\ runs' = runs + 1
    /\ UNCHANGED <<types, models>>

\* ------------------------------------------------------ declaration inputs
\* the names used by the declarations
nA == <<"a">>
nB == <<"b">>
nI == <<"i">>
nJ == <<"j">>
nX == <<"x">>
nZ == <<"z">>
nD == <<"d">>
nM == <<"m">>
nT == <<"t">>
nAdotB == <<"a", ".", "b">>
nA__B == <<"a", "_", "_", "b">>
nDdotB == <<"d", ".", "b">>

\* int; S = struct{b int}; D = struct{b int; b int null}
StdTypes ==
    << BaseTypeDecl("int", "integer"),
       StructTypeDecl("S", <<FieldItem(nB, "int", <<>>)>>),
       StructTypeDecl("D", <<FieldItem(nB, "int", <<>>), FieldItem(nB, "int", <<NullFlag>>)>>) >>

\* the same, with S declared twice and a struct with a member of an
\* undeclared type
BadTypes ==
    StdTypes \o
    << StructTypeDecl("S", <<FieldItem(nB, "int", <<>>)>>),
       StructTypeDecl("U", <<FieldItem(nX, "nope", <<>>)>>) >>

TypeEnvs == {StdTypes, BadTypes}

ItemSeqs(pool, n) == UNION {[1..k -> pool] : k \in 0..n}

\* a model with the column i and the primary key (i), or nothing
Bases == {<<>>, <<FieldItem(nI, "int", <<>>), PrimaryKeyItem(<<nI>>)>>}

\* fields and primary keys
ColumnPool ==
    { FieldItem(nA, "S", <<NullFlag>>),
      FieldItem(nA__B, "int", <<>>),
      FieldItem(nI, "int", <<NullFlag>>),
      FieldItem(nD, "D", <<>>),
      FieldItem(nX, "nope", <<>>),
      PrimaryKeyItem(<<nI>>),
      PrimaryKeyItem(<<nAdotB>>),
      PrimaryKeyItem(<<nDdotB>>),
      PrimaryKeyItem(<<nZ>>) }

\* a second model: none, a valid one, or one of the first model's name
SecondModels ==
    { <<>>,
      <<ModelDecl(nT, <<FieldItem(nI, "int", <<>>), PrimaryKeyItem(<<nI>>)>>)>>,
      <<ModelDecl(nM, <<FieldItem(nI, "int", <<>>)>>)>> }

InitState ==
    /\ typesByName = << >>
    /\ s = [Types |-> << >>, Models |-> << >>]
    /\ validationErrors = <<>>
    /\ result = NoResult
    /\ recorded = <<>>
    /\ runs = 0

\* the declarations are made before the first call of Schema()
Init ==
    /\ types \in TypeEnvs
    /\ \E base \in Bases, extra \in ItemSeqs(ColumnPool, MaxExtra), snd \in SecondModels :
          models = <<ModelDecl(nM, base \o extra)>> \o snd
    /\ InitState

Next == Schema

Spec == Init /\ [][Next]_vars

\* --------------------------------------- inputs of the constraint checks
\* a model with the column i, without and with the primary key (i)
CheckBases ==
    { <<FieldItem(nI, "int", <<>>)>>,
      <<FieldItem(nI, "int", <<>>), PrimaryKeyItem(<<nI>>)>> }

\* indexes, uniques and foreign keys (to the model t), on the column i and
\* on the missing column z; a second field i
ConstraintPool ==
    { IndexItem(<<nI>>),
      IndexItem(<<nI, nZ>>),
      UniqueItem(<<nI>>),
      UniqueItem(<<nZ>>),
      ForeignKeyItem(nI, nT),
      ForeignKeyItem(nZ, nT),
      FieldItem(nI, "int", <<>>),
      PrimaryKeyItem(<<nZ>>) }

\* the model t: not declared, or declared with a primary key of one column,
\* without a primary key, with a primary key of two columns, with a primary
\* key of no column
Targets ==
    { <<>>,
      <<ModelDecl(nT, <<FieldItem(nI, "int", <<>>), PrimaryKeyItem(<<nI>>)>>)>>,
      <<ModelDecl(nT, <<FieldItem(nI, "int", <<>>)>>)>>,
      <<ModelDecl(nT, <<FieldItem(nI, "int", <<>>), FieldItem(nJ, "int", <<>>),
                        PrimaryKeyItem(<<nI, nJ>>)>>)>>,
      <<ModelDecl(nT, <<FieldItem(nI, "int", <<>>), PrimaryKeyItem(<<>>)>>)>> }

InitChecks ==
    /\ types = StdTypes
    /\ \E base \in CheckBases, extra \in ItemSeqs(ConstraintPool, MaxExtra), tgt \in Targets :
          models = <<ModelDecl(nM, base \o extra)>> \o tgt
    /\ InitState

SpecChecks == InitChecks /\ [][Next]_vars

\* ------------------------------------------------- inputs of the flattening
nC == <<"c">>
nP == <<"p">>
nK == <<"k">>
nAdotC == <<"a", ".", "c">>

\* members of the struct type V: of base type, of the struct type S, of the
\* type P = struct{p V}, of V itself
MemberPool ==
    { FieldItem(n, t[1], t[2]) :
        n \in {nB, nC},
        t \in { <<"int", <<>>>>, <<"int", <<NullFlag>>>>,
                <<"S", <<>>>>, <<"S", <<NullFlag>>>>,
                <<"P", <<>>>>, <<"V", <<>>>> } }

\* flags of the field of type V: none, nullable, nullable with a tag key
\* given twice
FieldFlags ==
    { <<>>, <<NullFlag>>,
      <<NullFlag, TagFlag(nK, <<"1">>), TagFlag(nK, <<"2">>)>> }

\* a model m{i int; <field> V; primaryKey(i)}
InitFlatten ==
    /\ \E members \in ItemSeqs(MemberPool, MaxMembers) :
          types = << BaseTypeDecl("int", "integer"),
                     StructTypeDecl("S", <<FieldItem(nB, "int", <<>>)>>),
                     StructTypeDecl("P", <<FieldItem(nP, "V", <<>>)>>),
                     StructTypeDecl("V", members) >>
    /\ \E name \in {nA, nAdotC}, flags \in FieldFlags :
          models = <<ModelDecl(nM, << FieldItem(nI, "int", <<>>),
                                      FieldItem(name, "V", flags),
                                      PrimaryKeyItem(<<nI>>) >>)>>
    /\ InitState

SpecFlatten == InitFlatten /\ [][Next]_vars

\* ------------------------------------------------------------------ claims
\* a call of Schema() has returned (a schema or the aggregate error)
Returned == result.outcome \in {"schema", "error"}

\* C1: each run's outcome depends only on that run's diagnostics: it returns
\* a schema iff no diagnostic was recorded during the run, and a failing
\* run's aggregate error counts and lists exactly the diagnostics recorded
\* during that run.
C1_OutcomeFromOwnDiagnostics ==
    Returned =>
       /\ (result.outcome = "schema" <=> recorded = <<>>)
       /\ (result.outcome = "error" =>
              result.count = Len(recorded) /\ result.lines = recorded)

\* C3: in every schema returned without error every model has a primary
\* key, every column name the key lists is the name of a column of the
\* model, and every column of that name is non-nullable.
C3_PrimaryKeyColumnsNonNullable ==
    result.outcome = "schema" =>
       \A k \in DOMAIN result.schema :
          LET m == result.schema[k]
          IN /\ m.PrimaryKey # <<>>
             /\ \A n \in 1..Len(m.PrimaryKey[1].Columns) :
                   /\ \E c \in 1..Len(m.Columns) :
                         m.Columns[c].Name = m.PrimaryKey[1].Columns[n]
                   /\ \A c \in 1..Len(m.Columns) :
                         m.Columns[c].Name = m.PrimaryKey[1].Columns[n]
                            => ~m.Columns[c].Nullable

\* C6: in every schema returned without error no two columns of one model
\* have the same name.
C6_ColumnsUniquelyNamed ==
    result.outcome = "schema" =>
       \A k \in DOMAIN result.schema :
          LET cols == result.schema[k].Columns
          IN \A a, b \in 1..Len(cols) : a # b => cols[a].Name # cols[b].Name

\* the declarations of the models named k, in declaration order, and the
\* primary-key declarations of one of them
DeclsNamed(k) == SelectSeq(models, LAMBDA d : d.name = k)
PKItems(d) == SelectSeq(d.items, LAMBDA i : i.kind = "primaryKey")

\* the "multiple primary key definitions" diagnostics of the last run for k
MultiplePKCount(k) ==
    Len(SelectSeq(recorded,
          LAMBDA e : e[1] = "multiple primary key definitions" /\ e[2] = k))

\* the occurrences after the first, summed over the declarations
RECURSIVE LaterPKs(_)
LaterPKs(ds) ==
    IF ds = <<>> THEN 0
    ELSE (IF Len(PKItems(Head(ds))) > 1 THEN Len(PKItems(Head(ds))) - 1 ELSE 0)
         + LaterPKs(Tail(ds))

Built == runs > 0 /\ result.outcome # "stack overflow"

\* C10 as stated: with more than one primary-key declaration in a model's
\* item list, one diagnostic is recorded per occurrence after the first, and
\* the model's primary key is the one of the first declaration.
C10_FirstPrimaryKeyKept ==
    Built =>
       \A k \in ModelNames(models) :
          LET ds == DeclsNamed(k)
              pks == PKItems(ds[Len(ds)])
          IN /\ MultiplePKCount(k) = LaterPKs(ds)
             /\ Len(pks) > 1 =>
                   s.Models[k].PrimaryKey = <<[Columns |-> undotAll(pks[1].names)]>>

\* C10 amended: ... and the model's primary key is the one of the last
\* declaration.
C10_LastPrimaryKeyKept ==
    Built =>
       \A k \in ModelNames(models) :
          LET ds == DeclsNamed(k)
              pks == PKItems(ds[Len(ds)])
          IN /\ MultiplePKCount(k) = LaterPKs(ds)
             /\ Len(pks) > 1 =>
                   s.Models[k].PrimaryKey = <<[Columns |-> undotAll(pks[Len(pks)].names)]>>

\* a model declared with two primary keys of different column lists was built
C10_Witness ==
    /\ Built
    /\ \E k \in ModelNames(models) :
          LET ds == DeclsNamed(k)
              pks == PKItems(ds[Len(ds)])
          IN /\ Len(pks) > 1
             /\ pks[1].names # pks[Len(pks)].names
             /\ MultiplePKCount(k) = Len(pks) - 1

\* a diagnostic is a line of the aggregate error the last run returned
Listed(e) == result.outcome = "error" /\ \E n \in 1..Len(result.lines) : result.lines[n] = e

\* number of columns of the primary key of a built model (0 when it has none)
PKLen(m) == IF m.PrimaryKey = <<>> THEN 0 ELSE Len(m.PrimaryKey[1].Columns)

\* C2: for every foreign key whose target model exists: a target primary
\* key of exactly one column becomes the foreign key's target column; a
\* target primary key of zero columns (or none declared) or of more than
\* one column is rejected with a diagnostic, and the run returns the
\* aggregate error.
C2_ForeignKeyLaw ==
    Built =>
       \A k \in DOMAIN s.Models :
          \A n \in 1..Len(s.Models[k].ForeignKeys) :
             LET f == s.Models[k].ForeignKeys[n]
             IN f.ForeignModel \in DOMAIN s.Models =>
                  LET t == s.Models[f.ForeignModel]
                  IN IF PKLen(t) = 1
                     THEN f.ForeignColumn = t.PrimaryKey[1].Columns[1]
                     ELSE /\ result.outcome = "error"
                          /\ Listed(<<"foreign key to model with multi-column primary key",
                                      k, f.Column, f.ForeignModel>>)

\* C7: in every schema returned without error no two indexes, no two
\* uniques and no two foreign keys of one model have the same generated name.
C7_ConstraintNamesUnique ==
    result.outcome = "schema" =>
       \A k \in DOMAIN result.schema :
          LET m == result.schema[k]
              distinct(list) ==
                  \A a, b \in 1..Len(list) : a # b => list[a].Name # list[b].Name
          IN distinct(m.Indexes) /\ distinct(m.Uniques) /\ distinct(m.ForeignKeys)

\* C8: two runs on the same declarations, each starting with an empty list
\* of diagnostics, return the same: the run that was made returned what a
\* run visiting the models in any other order returns.
C8_Deterministic ==
    runs = 1 =>
       \A ord \in Orders(ModelNames(models)) :
          SchemaCall(types, models, <<>>, ord).result = result

\* C9: every violation of a built model has its diagnostic in the aggregate
\* error of the run, whatever else is wrong: a repeated field name, a
\* missing primary key, a primary key, index or unique naming an unknown
\* column, a foreign key on an unknown column or to an unknown model.
C9_AllViolationsReported ==
    Built =>
       \A k \in DOMAIN s.Models :
          LET m == s.Models[k]
              has(name) == \E c \in 1..Len(m.Columns) : m.Columns[c].Name = name
          IN /\ \A a, b \in 1..Len(m.Fields) :
                   a < b /\ m.Fields[a].Name = m.Fields[b].Name =>
                      Listed(<<"field defined multiple times", k, m.Fields[b].Name>>)
             /\ m.PrimaryKey = <<>> => Listed(<<"missing a primary key", k>>)
             /\ m.PrimaryKey # <<>> =>
                   \A n \in 1..Len(m.PrimaryKey[1].Columns) :
                      ~has(m.PrimaryKey[1].Columns[n]) =>
                         Listed(<<"primary key references unknown column", k,
                                  m.PrimaryKey[1].Columns[n]>>)
             /\ \A x \in 1..Len(m.Indexes) : \A n \in 1..Len(m.Indexes[x].Columns) :
                   ~has(m.Indexes[x].Columns[n]) =>
                      Listed(<<"index references unknown column", k,
                               describeIndex(m.Indexes[x].Columns), m.Indexes[x].Columns[n]>>)
             /\ \A x \in 1..Len(m.Uniques) : \A n \in 1..Len(m.Uniques[x].Columns) :
                   ~has(m.Uniques[x].Columns[n]) =>
                      Listed(<<"unique references unknown column", k,
                               describeIndex(m.Uniques[x].Columns), m.Uniques[x].Columns[n]>>)
             /\ \A x \in 1..Len(m.ForeignKeys) :
                   LET f == m.ForeignKeys[x]
                   IN /\ ~has(f.Column) =>
                           Listed(<<"foreign key on non-existing field", k, f.Column>>)
                      /\ f.ForeignModel \notin DOMAIN s.Models =>
                           Listed(<<"foreign key to non-existing model", k, f.Column,
                                    f.ForeignModel>>)

\* the struct field of the flattening inputs, its struct type's members, and
\* the columns the model got after the column i
VField == models[1].items[2]
VMembers == typesByName["V"].items
VColumns == SubSeq(s.Models[nM].Columns, 2, Len(s.Models[nM].Columns))

\* a nullable field of a struct type whose members are all of base type was
\* flattened
FlattenCase ==
    /\ Built
    /\ "V" \in DOMAIN typesByName
    /\ VField.typeName = "V" /\ isNullable(VField.flags)
    /\ \A n \in 1..Len(VMembers) : VMembers[n].typeName = "int"

StartsWith(name, p) == Len(name) >= Len(p) /\ SubSeq(name, 1, Len(p)) = p

\* C4 as stated: a top-level nullable field of a struct type with N members
\* of base type appends exactly N+1 columns, N nullable leaves and one
\* boolean presence column, and all N+1 names start with the field name
\* followed by a double underscore.
C4_FlattenAllPrefixed ==
    FlattenCase =>
       LET N == Len(VMembers)
           pre == undot(VField.name) \o <<"_", "_">>
       IN /\ Len(VColumns) = N + 1
          /\ \A n \in 1..N : VColumns[n].Nullable /\ VColumns[n].Type.name = "int"
          /\ VColumns[N + 1].Type = BoolType /\ VColumns[N + 1].DBType = "boolean"
          /\ \A n \in 1..(N + 1) : StartsWith(VColumns[n].Name, pre)

\* C4 amended: ... the N leaf names start with the field name followed by a
\* double underscore (and end with the member name), and the presence
\* column is named as the field.
C4_FlattenLeavesPrefixed ==
    FlattenCase =>
       LET N == Len(VMembers)
           pre == undot(VField.name) \o <<"_", "_">>
       IN /\ Len(VColumns) = N + 1
          /\ \A n \in 1..N : VColumns[n].Nullable /\ VColumns[n].Type.name = "int"
          /\ VColumns[N + 1].Type = BoolType /\ VColumns[N + 1].DBType = "boolean"
          /\ \A n \in 1..N : VColumns[n].Name = pre \o undot(VMembers[n].name)
          /\ VColumns[N + 1].Name = undot(VField.name)

\* a nullable struct field with two members, one of them not declared
\* nullable, was flattened
C4_Witness ==
    /\ FlattenCase
    /\ Len(VMembers) = 2
    /\ \E n \in 1..2 : ~isNullable(VMembers[n].flags)
    /\ Len(VColumns) = 3

\* the struct types a declared type's members are of, and those reachable
TypeSucc(n) ==
    IF n \in DOMAIN typesByName /\ typesByName[n].kind = "struct"
    THEN {typesByName[n].items[k].typeName : k \in 1..Len(typesByName[n].items)}
    ELSE {}

RECURSIVE TypeClosure(_)
TypeClosure(set) ==
    LET next == set \cup UNION {TypeSucc(n) : n \in set}
    IN IF next = set THEN set ELSE TypeClosure(next)

\* a model has a field whose type is, or contains, a struct type on a cycle
CyclicField ==
    \E d \in 1..Len(models) : \E k \in 1..Len(models[d].items) :
       /\ models[d].items[k].kind = "field"
       /\ \E t \in TypeClosure({models[d].items[k].typeName}) :
             t \in TypeClosure(TypeSucc(t))

\* C5: Schema() ends on every declaration set; when a model has a field of
\* a struct type on a reference cycle, the run ends with a diagnostic
\* instead of makeModel recursing without end.
C5_CyclesReported ==
    runs > 0 =>
       /\ result.outcome # "stack overflow"
       /\ CyclicField => result.outcome = "error" /\ recorded # <<>>

====
